---- MODULE Spec2Model ----
(***************************************************************************)
(* State-machine model of the SQL browser gateway (server.js, mariadb.js). *)
(* One request handler runs per HTTP request; handlers interleave at every *)
(* await (pool.getConnection, conn.query, conn.release).  The database is  *)
(* one schema holding the table `users`; rows are identified by their id.  *)
(***************************************************************************)
EXTENDS Integers, Sequences, FiniteSets, TLC

VARIABLES phase, startConn, busy, db, req, pool, proc, call

vars == <<phase, startConn, busy, db, req, pool, proc, call>>

(* ---------------------------- bounds ---------------------------------- *)
MaxRequests == 2
MaxRows == 2
MaxRowId == 3
MaxPage == 2
MaxLimit == 1
MaxSignals == 2
MaxFields == 2
MaxApplications == 2

(* ----------------------- program constants ---------------------------- *)
connectionLimit == 5
DefaultPage == 1
DefaultLimit == 50

Requests == 1..MaxRequests
Conns == 1..connectionLimit

(* A query-string or body value that is not present (JS undefined). *)
ABSENT == "<undefined>"

(* ----------------------- JavaScript numbers --------------------------- *)
(* A JS number is a finite integer, NaN or Infinity. *)
Num(n) == [kind |-> "num", n |-> n]
NaN == [kind |-> "NaN", n |-> 0]
Infinity == [kind |-> "Infinity", n |-> 0]

(* Integers whose decimal form the model can read back. *)
Literals == ((0 - 1)..(DefaultLimit + MaxLimit)) \cup {3307}

(* parseInt(s): the integer a decimal string denotes, NaN for other text. *)
parseInt(s) ==
  IF \E n \in Literals : ToString(n) = s
    THEN Num(CHOOSE n \in Literals : ToString(n) = s)
    ELSE NaN

JsSub(a, b) == IF a.kind = "num" /\ b.kind = "num" THEN Num(a.n - b.n) ELSE NaN

JsMul(a, b) == IF a.kind = "num" /\ b.kind = "num" THEN Num(a.n * b.n) ELSE NaN

(* Template interpolation `${x}` of a JS number; -0 prints as "0". *)
JsToString(a) == IF a.kind = "num" THEN ToString(a.n) ELSE a.kind

CeilDiv(a, b) == IF a % b = 0 THEN a \div b ELSE (a \div b) + 1

(* Math.ceil(total / limit) for an integer total >= 0. *)
MathCeilDiv(total, lim) ==
  IF lim.kind # "num" THEN NaN
  ELSE IF lim.n = 0 THEN (IF total = 0 THEN NaN ELSE Infinity)
  ELSE IF lim.n > 0 THEN Num(CeilDiv(total, lim.n))
  ELSE Num(0 - (total \div (0 - lim.n)))

(* JSON.stringify of a number: NaN and Infinity are written as null. *)
JsonNumber(a) == IF a.kind = "num" THEN a ELSE [kind |-> "null", n |-> 0]

(* ----------------------------- rows ----------------------------------- *)
BigIntValue(i) == [type |-> "bigint", v |-> ToString(i)]
StringValue(s) == [type |-> "string", v |-> s]

(* A BIGINT the driver hands over as a BigInt, by its decimal digits. *)
BigInt(digits) == [type |-> "bigint", v |-> digits]

(* The driver's row object for the row with id i of `users`
   (id BIGINT, name VARCHAR, visits BIGINT UNSIGNED), as its entries in key
   order; visits is 18446744073709551610 + i. *)
RowOf(i) ==
  << [key |-> "id", value |-> BigIntValue(i)],
     [key |-> "name", value |-> StringValue("n" \o ToString(i))],
     [key |-> "visits", value |-> BigInt("1844674407370955161" \o ToString(i))] >>

ObjectKeys(row) == [j \in DOMAIN row |-> row[j].key]

(* Object.values(row)[0] *)
FirstValue(row) == row[1].value.v

ProcessValue_Quoted(value) ==
  IF value.type \in {"bigint", "string"} THEN StringValue("'" \o value.v \o "'") ELSE value

(* processed[key] = typeof value === 'bigint' ? value.toString() : value *)
ProcessValue(value) ==
  IF value.type = "bigint" THEN StringValue(value.v) ELSE value

ProcessRow_UnsafeOnly(row) ==
  [j \in DOMAIN row |->
     [key |-> row[j].key,
      value |-> IF Len(row[j].value.v) > 16 THEN ProcessValue(row[j].value) ELSE row[j].value]]

(* Object.entries(row).forEach(([key, value]) => processed[key] = ...) *)
ProcessRow(row) ==
  [j \in DOMAIN row |-> [key |-> row[j].key, value |-> ProcessValue(row[j].value)]]

ProcessRows(rows) == [i \in DOMAIN rows |-> ProcessRow(rows[i])]

(* --------------------------- database --------------------------------- *)
(* db = [exists, rows, nextId]: whether `users` exists, the ids of its rows
   in storage order, and the id the next INSERT gets. *)
TableExists(d, name) == name = "users" /\ d.exists

(* SQL text the handlers build, as its parts. *)
ShowTablesSql == [op |-> "SHOW TABLES", table |-> "", clause |-> <<>>]

CountSql(tableName) == [op |-> "SELECT COUNT", table |-> tableName, clause |-> <<>>]

SelectSql(tableName, clause) == [op |-> "SELECT", table |-> tableName, clause |-> clause]

BadSql == [op |-> "SYNTAX ERROR", table |-> "", clause |-> <<>>]

(* Raw SQL texts a caller posts to /api/query. *)
RawSelect == "SELECT * FROM users"
RawInsert == "INSERT INTO users (name) VALUES ('x')"
RawDelete == "DELETE FROM users ORDER BY id LIMIT 1"
RawDrop == "DROP TABLE users"
RawCreate == "CREATE TABLE users (id BIGINT, name VARCHAR(9), visits BIGINT UNSIGNED)"
RawBad == "SELEC 1"

RawQueries == {RawSelect, RawInsert, RawDelete, RawDrop, RawCreate, RawBad}

(* The statement the database parses out of a raw SQL text. *)
ParseRaw(text) ==
  CASE text = RawSelect -> SelectSql("users", <<>>)
    [] text = RawInsert -> [op |-> "INSERT", table |-> "users", clause |-> <<>>]
    [] text = RawDelete -> [op |-> "DELETE", table |-> "users", clause |-> <<>>]
    [] text = RawDrop -> [op |-> "DROP", table |-> "users", clause |-> <<>>]
    [] text = RawCreate -> [op |-> "CREATE", table |-> "users", clause |-> <<>>]
    [] OTHER -> BadSql

(* LIMIT takes two unsigned integer literals. *)
IsUnsignedLiteral(s) == parseInt(s).kind = "num" /\ parseInt(s).n >= 0

Min(a, b) == IF a <= b THEN a ELSE b

(* Rows a SELECT * returns: all of them, or the window of LIMIT offset, count. *)
Window(ids, clause) ==
  IF clause = <<>> THEN ids
  ELSE SubSeq(ids, parseInt(clause[1]).n + 1,
              Min(parseInt(clause[1]).n + parseInt(clause[2]).n, Len(ids)))

Tail1(s) == IF s = <<>> THEN <<>> ELSE Tail(s)

ErrNoTable == "Table 'shop.users' doesn't exist"
ErrSyntax == "You have an error in your SQL syntax"
ErrExists == "Table 'users' already exists"
ErrUnknown == "Unknown table 'shop.users'"
ErrLost == "Connection lost"

Rejected(d, message) == [err |-> message, isArray |-> FALSE, rows |-> <<>>, db |-> d]
RowsResult(d, rows) == [err |-> "", isArray |-> TRUE, rows |-> rows, db |-> d]
OkPacket(d) == [err |-> "", isArray |-> FALSE, rows |-> <<>>, db |-> d]

(* What the database does with a statement: the promise's outcome (err = ""
   when it resolves), the result set, and the database afterwards. *)
Execute(d, stmt) ==
  CASE stmt.op = "SHOW TABLES" ->
         RowsResult(d, IF d.exists
                         THEN << << [key |-> "Tables_in_shop", value |-> StringValue("users")] >> >>
                         ELSE << >>)
    [] stmt.op = "SELECT COUNT" ->
         IF ~TableExists(d, stmt.table) THEN Rejected(d, ErrNoTable)
         ELSE RowsResult(d, << << [key |-> "total", value |-> BigIntValue(Len(d.rows))] >> >>)
    [] stmt.op = "SELECT" ->
         IF stmt.clause # <<>> /\ ~(IsUnsignedLiteral(stmt.clause[1]) /\ IsUnsignedLiteral(stmt.clause[2]))
           THEN Rejected(d, ErrSyntax)
         ELSE IF ~TableExists(d, stmt.table) THEN Rejected(d, ErrNoTable)
         ELSE RowsResult(d, [i \in DOMAIN Window(d.rows, stmt.clause) |->
                                RowOf(Window(d.rows, stmt.clause)[i])])
    [] stmt.op = "INSERT" ->
         IF ~TableExists(d, stmt.table) THEN Rejected(d, ErrNoTable)
         ELSE OkPacket([d EXCEPT !.rows = Append(@, d.nextId), !.nextId = @ + 1])
    [] stmt.op = "DELETE" ->
         IF ~TableExists(d, stmt.table) THEN Rejected(d, ErrNoTable)
         ELSE OkPacket([d EXCEPT !.rows = Tail1(@)])
    [] stmt.op = "DROP" ->
         IF ~TableExists(d, stmt.table) THEN Rejected(d, ErrUnknown)
         ELSE OkPacket([d EXCEPT !.exists = FALSE, !.rows = <<>>])
    [] stmt.op = "CREATE" ->
         IF TableExists(d, stmt.table) THEN Rejected(d, ErrExists)
         ELSE OkPacket([d EXCEPT !.exists = TRUE, !.rows = <<>>])
    [] OTHER -> Rejected(d, ErrSyntax)

(* The model stops growing the table at MaxRows rows and MaxRowId ids. *)
WithinBounds(d, stmt) ==
  stmt.op = "INSERT" /\ TableExists(d, stmt.table)
    => Len(d.rows) < MaxRows /\ d.nextId <= MaxRowId

(* --------------------------- responses -------------------------------- *)
dbName == "shop"

(* res.status(code).json({errors: [{status, title, detail}]}) *)
ErrorEnvelope(code, title, detail) ==
  [status |-> code,
   body |-> [errors |-> << [status |-> ToString(code), title |-> title, detail |-> detail] >>]]

BadRequest == ErrorEnvelope(400, "Bad Request", "Missing query in request body")

NotFound_EmptyDocument(tableName) ==
  [status |-> 200, body |-> [data |-> << >>, meta |-> [tableName |-> tableName]]]

NotFound(tableName) == ErrorEnvelope(404, "Not Found", "Table '" \o tableName \o "' not found")

DatabaseError_Generic(message) == ErrorEnvelope(500, "Database Error", "Internal error")

(* catch blocks of GET /api/tables and POST /api/query *)
DatabaseError(message) == ErrorEnvelope(500, "Database Error", message)

(* catch block of GET /api/tables/:tableName *)
TableDataCatch(message) == [status |-> 500, body |-> [success |-> FALSE, error |-> message]]

(* Serializer(type, {attributes}).serialize(records): one resource per record,
   carrying the listed attributes of the record. *)
HasKey(record, key) == \E j \in DOMAIN record : record[j].key = key

Pick(record, attributes) ==
  LET present == SelectSeq(attributes, LAMBDA a : HasKey(record, a))
  IN [i \in DOMAIN present |-> record[CHOOSE j \in DOMAIN record : record[j].key = present[i]]]

(* String(record.id), or undefined when the record has no id *)
IdOf(record) ==
  IF \E j \in DOMAIN record : record[j].key = "id"
    THEN record[CHOOSE j \in DOMAIN record : record[j].key = "id"].value.v
    ELSE ABSENT

Serialize(type, attributes, records) ==
  [i \in DOMAIN records |->
     [type |-> type, id |-> IdOf(records[i]), attributes |-> Pick(records[i], attributes)]]

Attributes_LastRow(processedRows) ==
  IF Len(processedRows) > 0 THEN ObjectKeys(processedRows[Len(processedRows)]) ELSE <<>>

Attributes_Fixed(processedRows) == <<"id", "name", "visits">>

(* attributes: processedRows.length > 0 ? Object.keys(processedRows[0]) : [] *)
Attributes(processedRows) ==
  IF Len(processedRows) > 0 THEN ObjectKeys(processedRows[1]) ELSE <<>>

ApiInfo ==
  [status |-> 200,
   body |-> [data |-> [type |-> "api-info", id |-> "root",
                       attributes |-> [api |-> "SQL Browser JSON:API", version |-> "1.0",
                                       database |-> dbName]]]]

TableList(tables) ==
  [status |-> 200,
   body |-> [data |-> Serialize("table", <<"name">>,
                        [i \in DOMAIN tables |->
                           << [key |-> "id", value |-> StringValue(tables[i])],
                              [key |-> "name", value |-> StringValue(tables[i])] >>])]]

Offset_ZeroBased(page, limit) == JsMul(parseInt(page), parseInt(limit))

(* (parseInt(page) - 1) * parseInt(limit) *)
Offset(page, limit) == JsMul(JsSub(parseInt(page), Num(1)), parseInt(limit))

Pages_Floor(limit, total) ==
  IF limit = "all" THEN Num(1)
  ELSE IF parseInt(limit).kind = "num" /\ parseInt(limit).n > 0
    THEN Num(total \div parseInt(limit).n)
    ELSE MathCeilDiv(total, parseInt(limit))

(* limit === 'all' ? 1 : Math.ceil(total / parseInt(limit)) *)
Pages(limit, total) == IF limit = "all" THEN Num(1) ELSE MathCeilDiv(total, parseInt(limit))

(* limit === 'all' ? total : parseInt(limit) *)
PaginationLimit(limit, total) == IF limit = "all" THEN Num(total) ELSE parseInt(limit)

Pagination(page, limit, total) ==
  [page |-> JsonNumber(parseInt(page)),
   limit |-> JsonNumber(PaginationLimit(limit, total)),
   total |-> JsonNumber(Num(total)),
   pages |-> JsonNumber(Pages(limit, total))]

TableData(tableName, page, limit, total, rows) ==
  [status |-> 200,
   body |-> [data |-> Serialize(tableName, Attributes(ProcessRows(rows)), ProcessRows(rows)),
             meta |-> [tableName |-> tableName, dbName |-> dbName,
                       pagination |-> Pagination(page, limit, total)]]]

QueryResult(query, rows) ==
  [status |-> 200,
   body |-> [data |-> Serialize("query-result", Attributes(ProcessRows(rows)), ProcessRows(rows)),
             meta |-> [dbName |-> dbName, query |-> query]]]

(* The LIMIT clause the table-data handler appends (none for 'all'). *)
LimitClause(page, limit) ==
  IF limit # "all" THEN << JsToString(Offset(page, limit)), limit >> ELSE << >>

(* ----------------------- request handlers ----------------------------- *)
(* req[r] is the handler of request r: its route (kind), the await it is
   suspended at (pc), its inputs and locals, the statements it has sent, how
   often it acquired and released a connection, and the responses it sent.
   allTables is << >> until it is assigned and then holds the listing.
   written records that `users` was written while the handler was running. *)
Idle ==
  [kind |-> "idle", pc |-> "idle", tableName |-> "", page |-> "", limit |-> "",
   query |-> "", conn |-> 0, allTables |-> <<>>, total |-> 0, sent |-> <<>>,
   acquired |-> 0, released |-> 0, written |-> FALSE, res |-> <<>>]

PageInputs == {ABSENT} \cup {ToString(n) : n \in 0..MaxPage}
LimitInputs == {ABSENT, "all", "abc"} \cup {ToString(n) : n \in 0..MaxLimit}

(* Inputs of GET /api/tables/:tableName: every page and limit for `users`;
   for the absent table `ghost` the handler never reads them. *)
TableDataInputs ==
  {[tableName |-> "users", page |-> p, limit |-> l] : p \in PageInputs, l \in LimitInputs}
    \cup {[tableName |-> "ghost", page |-> ABSENT, limit |-> ABSENT]}
QueryInputs == {ABSENT, ""} \cup RawQueries

Last(s) == s[Len(s)]

SetMin(S) == CHOOSE c \in S : \A e \in S : c <= e

InFlight(q) == q.pc \notin {"idle", "done"}

(* const { page = 1, limit = 50 } = req.query; the numbers 1 and 50 behave
   in parseInt, in the template and in limit !== 'all' as "1" and "50" do. *)
Page(q) == IF q.page = ABSENT THEN ToString(DefaultPage) ELSE q.page

Limit(q) == IF q.limit = ABSENT THEN ToString(DefaultLimit) ELSE q.limit

Missing_UndefinedOnly(query) == query = ABSENT

(* if (!query): undefined and the empty string are falsy *)
Missing(query) == query = ABSENT \/ query = ""

(* Requests are numbered in the order they arrive. *)
NextToArrive(r) == req[r].pc = "idle" /\ \A x \in DOMAIN req : x < r => req[x].pc # "idle"

Respond(q, response) == [q EXCEPT !.res = Append(@, response)]

(* The handler has returned: its locals are gone; the request, what the
   handler sent and answered, and its acquire and release counts stay on
   record. *)
Returned(q) ==
  [q EXCEPT !.pc = "done", !.conn = 0, !.allTables = <<>>, !.total = 0, !.written = FALSE]

Finally_ReturnBeforeRelease(q) ==
  IF q.conn # 0 /\ Last(q.res).status # 404 THEN [q EXCEPT !.pc = "release"] ELSE Returned(q)

(* finally { if (conn) await conn.release(); } *)
Finally(q) == IF q.conn # 0 THEN [q EXCEPT !.pc = "release"] ELSE Returned(q)

Catch_NoTableIs404(q, message) ==
  Respond(q, IF q.kind = "tableData"
               THEN (IF message = ErrNoTable THEN NotFound(q.tableName)
                     ELSE TableDataCatch(message))
               ELSE DatabaseError(message))

Catch_Silent(q, message) == q

(* catch (err) { res.status(500).json(...) } of the handler's route *)
Catch(q, message) ==
  Respond(q, IF q.kind = "tableData" THEN TableDataCatch(message) ELSE DatabaseError(message))

(* conn.query(stmt) is called and awaited at pc. *)
Send(q, stmt, pc) == [q EXCEPT !.sent = Append(@, stmt), !.pc = pc]

(* The handler of request r becomes q while the database becomes d. *)
Step(r, q, d) ==
  /\ db' = d
  /\ req' = [x \in DOMAIN req |->
               IF x = r THEN q
               ELSE IF d # db /\ InFlight(req[x]) THEN [req[x] EXCEPT !.written = TRUE]
               ELSE req[x]]

(* GET /api *)
ApiRequest(r) ==
  /\ phase = "listening" /\ NextToArrive(r)
  /\ Step(r, Returned(Respond([Idle EXCEPT !.kind = "api"], ApiInfo)), db)
  /\ UNCHANGED <<phase, startConn, busy, pool, proc, call>>

(* GET /api/tables, up to pool.getConnection() *)
TablesRequest(r) ==
  /\ phase = "listening" /\ NextToArrive(r)
  /\ Step(r, [Idle EXCEPT !.kind = "tables", !.pc = "getConnection"], db)
  /\ UNCHANGED <<phase, startConn, busy, pool, proc, call>>

(* GET /api/tables/:tableName, up to pool.getConnection() *)
TableDataRequestOf(r, inputs) ==
  /\ phase = "listening" /\ NextToArrive(r)
  /\ \E in \in inputs :
       Step(r, [Idle EXCEPT !.kind = "tableData", !.pc = "getConnection",
                            !.tableName = in.tableName, !.page = in.page,
                            !.limit = in.limit],
            db)
  /\ UNCHANGED <<phase, startConn, busy, pool, proc, call>>

TableDataRequest(r) == TableDataRequestOf(r, TableDataInputs)

(* POST /api/query with a body.query out of inputs, up to
   pool.getConnection(); if (!query) return 400 *)
QueryRequestOf(r, inputs) ==
  /\ phase = "listening" /\ NextToArrive(r)
  /\ \E query \in inputs :
       IF Missing(query)
         THEN Step(r, Returned(Respond([Idle EXCEPT !.kind = "query", !.query = query],
                                       BadRequest)), db)
         ELSE Step(r, [Idle EXCEPT !.kind = "query", !.pc = "getConnection", !.query = query], db)
  /\ UNCHANGED <<phase, startConn, busy, pool, proc, call>>

QueryRequest(r) == QueryRequestOf(r, QueryInputs)

GetConnection_NoLimit(r) ==
  /\ phase = "listening" /\ req[r].pc = "getConnection"
  /\ pool = "open"
  /\ LET c == IF busy = Conns THEN SetMin(Conns) ELSE SetMin(Conns \ busy)
         q == [req[r] EXCEPT !.conn = c, !.acquired = @ + 1]
     IN /\ busy' = busy \cup {c}
        /\ IF q.kind = "query"
             THEN Step(r, Send(q, ParseRaw(q.query), "query"), db)
             ELSE Step(r, Send(q, ShowTablesSql, "showTables"), db)
  /\ UNCHANGED <<phase, startConn, pool, proc, call>>

GetConnection_EarlyRelease(r) ==
  /\ phase = "listening" /\ req[r].pc = "getConnection"
  /\ pool = "open" /\ busy # Conns
  /\ LET c == SetMin(Conns \ busy)
         q == [req[r] EXCEPT !.conn = c, !.acquired = @ + 1]
     IN /\ busy' = busy
        /\ IF q.kind = "query"
             THEN Step(r, Send(q, ParseRaw(q.query), "query"), db)
             ELSE Step(r, Send(q, ShowTablesSql, "showTables"), db)
  /\ UNCHANGED <<phase, startConn, pool, proc, call>>

(* conn = await pool.getConnection() resolves; the handler sends its first
   statement. *)
GetConnection(r) ==
  /\ phase = "listening" /\ req[r].pc = "getConnection"
  /\ pool = "open" /\ busy # Conns
  /\ LET c == SetMin(Conns \ busy)
         q == [req[r] EXCEPT !.conn = c, !.acquired = @ + 1]
     IN /\ busy' = busy \cup {c}
        /\ IF q.kind = "query"
             THEN Step(r, Send(q, ParseRaw(q.query), "query"), db)
             ELSE Step(r, Send(q, ShowTablesSql, "showTables"), db)
  /\ UNCHANGED <<phase, startConn, pool, proc, call>>

(* pool.getConnection() rejects: catch, then finally with conn undefined. *)
GetConnectionFails(r) ==
  /\ phase = "listening" /\ req[r].pc = "getConnection"
  /\ Step(r, Finally(Catch(req[r], ErrLost)), db)
  /\ UNCHANGED <<phase, startConn, busy, pool, proc, call>>

(* tablesResult.map(row => Object.values(row)[0]) *)
TableNamesOf(tablesResult) == [i \in DOMAIN tablesResult |-> FirstValue(tablesResult[i])]

Includes_Always(seq, e) == TRUE

(* allTables.includes(tableName) *)
Includes(seq, e) == \E i \in DOMAIN seq : seq[i] = e

ShowTables_Cached(r) ==
  /\ phase = "listening" /\ req[r].pc = "showTables"
  /\ LET q == [req[r] EXCEPT !.allTables = << <<"users">> >>]
     IN IF q.kind = "tables"
          THEN Step(r, Finally(Respond(q, TableList(q.allTables[1]))), db)
          ELSE IF ~Includes(q.allTables[1], q.tableName)
            THEN Step(r, Finally(Respond(q, NotFound(q.tableName))), db)
            ELSE Step(r, Send(q, CountSql(q.tableName), "count"), db)
  /\ UNCHANGED <<phase, startConn, busy, pool, proc, call>>

(* await conn.query('SHOW TABLES') resolves. GET /api/tables answers with the
   list; GET /api/tables/:tableName answers 404 or sends the count query. *)
ShowTables(r) ==
  /\ phase = "listening" /\ req[r].pc = "showTables"
  /\ LET result == Execute(db, Last(req[r].sent))
         q == [req[r] EXCEPT !.allTables = << TableNamesOf(result.rows) >>]
     IN IF q.kind = "tables"
          THEN Step(r, Finally(Respond(q, TableList(q.allTables[1]))), db)
          ELSE IF ~Includes(q.allTables[1], q.tableName)
            THEN Step(r, Finally(Respond(q, NotFound(q.tableName))), db)
            ELSE Step(r, Send(q, CountSql(q.tableName), "count"), db)
  /\ UNCHANGED <<phase, startConn, busy, pool, proc, call>>

(* Number(countResult[0].total.toString()) *)
TotalOf(countResult) == parseInt(countResult[1][1].value.v).n

(* await conn.query(count query) settles; the handler
   builds and sends the data query. *)
CountQuery(r) ==
  /\ phase = "listening" /\ req[r].pc = "count"
  /\ LET result == Execute(db, Last(req[r].sent))
         q == req[r]
     IN IF result.err # ""
          THEN Step(r, Finally(Catch(q, result.err)), db)
          ELSE Step(r, Send([q EXCEPT !.total = TotalOf(result.rows)],
                            SelectSql(q.tableName, LimitClause(Page(q), Limit(q))), "select"), db)
  /\ UNCHANGED <<phase, startConn, busy, pool, proc, call>>

(* rows = await conn.query(query) settles; the handler answers. *)
DataQuery(r) ==
  /\ phase = "listening" /\ req[r].pc = "select"
  /\ LET result == Execute(db, Last(req[r].sent))
         q == req[r]
     IN IF result.err # ""
          THEN Step(r, Finally(Catch(q, result.err)), db)
          ELSE Step(r, Finally(Respond(q, TableData(q.tableName, Page(q), Limit(q), q.total,
                                                    result.rows))), db)
  /\ UNCHANGED <<phase, startConn, busy, pool, proc, call>>

ErrNotArray == "rows.map is not a function"

(* const rows = await conn.query(query) of POST /api/query settles; rows.map
   throws a TypeError when the driver's result is not a row list. *)
RawQuery(r) ==
  /\ phase = "listening" /\ req[r].pc = "query"
  /\ WithinBounds(db, Last(req[r].sent))
  /\ LET result == Execute(db, Last(req[r].sent))
         q == req[r]
     IN IF result.err # ""
          THEN Step(r, Finally(Catch(q, result.err)), result.db)
          ELSE IF ~result.isArray
            THEN Step(r, Finally(Catch(q, ErrNotArray)), result.db)
            ELSE Step(r, Finally(Respond(q, QueryResult(q.query, result.rows))), result.db)
  /\ UNCHANGED <<phase, startConn, busy, pool, proc, call>>

QueryFails_TearsDownPool(r) ==
  /\ phase = "listening" /\ req[r].pc \in {"showTables", "count", "select", "query"}
  /\ Step(r, Finally(Catch(req[r], ErrLost)), db)
  /\ pool' = "closed"
  /\ UNCHANGED <<phase, startConn, busy, proc, call>>

(* A pending conn.query() rejects with a driver error (connection lost). *)
QueryFails(r) ==
  /\ phase = "listening" /\ req[r].pc \in {"showTables", "count", "select", "query"}
  /\ Step(r, Finally(Catch(req[r], ErrLost)), db)
  /\ UNCHANGED <<phase, startConn, busy, pool, proc, call>>

Release_Leak(r) ==
  /\ phase = "listening" /\ req[r].pc = "release"
  /\ busy' = busy
  /\ Step(r, Returned([req[r] EXCEPT !.released = @ + 1]), db)
  /\ UNCHANGED <<phase, startConn, pool, proc, call>>

(* await conn.release() in the finally block: the connection is idle again
   and the handler ends. *)
Release(r) ==
  /\ phase = "listening" /\ req[r].pc = "release"
  /\ busy' = busy \ {req[r].conn}
  /\ Step(r, Returned([req[r] EXCEPT !.released = @ + 1]), db)
  /\ UNCHANGED <<phase, startConn, pool, proc, call>>

(* -------------------------- connection URI --------------------------- *)
(* A string argument is the sequence of its characters; an argument of any
   other type has no characters. *)
Str(chars) == [type |-> "string", chars |-> chars]
NotAString(type) == [type |-> type, chars |-> << >>]

Digits == {"0", "1", "2", "3", "4", "5", "6", "7", "8", "9"}
Letters == {"b", "d", "g", "h", "l", "m", "o", "p", "q", "r", "s", "u", "w", "y"}

RECURSIVE Join(_)
(* The string a character sequence spells. *)
Join(chars) == IF chars = << >> THEN "" ELSE chars[1] \o Join(Tail(chars))

DigitOf(c) == CHOOSE n \in 0..9 : ToString(n) = c

RECURSIVE Decimal(_)
(* The number a sequence of digits denotes. *)
Decimal(chars) ==
  IF chars = << >> THEN 0
  ELSE Decimal(SubSeq(chars, 1, Len(chars) - 1)) * 10 + DigitOf(chars[Len(chars)])

(* s.indexOf(c), counted from 1; 0 when c does not occur. *)
IndexOf(s, c) ==
  IF \E i \in DOMAIN s : s[i] = c THEN CHOOSE i \in DOMAIN s : s[i] = c /\ \A j \in 1..(i - 1) : s[j] # c
  ELSE 0

(* s.lastIndexOf(c), counted from 1; 0 when c does not occur. *)
LastIndexOf(s, c) ==
  IF \E i \in DOMAIN s : s[i] = c
    THEN CHOOSE i \in DOMAIN s : s[i] = c /\ \A j \in (i + 1)..Len(s) : s[j] # c
  ELSE 0

From(s, i) == SubSeq(s, i, Len(s))
Upto(s, i) == SubSeq(s, 1, i)

InvalidURL == [ok |-> FALSE, protocol |-> "", hostname |-> "", port |-> "", username |-> "",
               password |-> "", pathname |-> << >>]

MaxPortNumber == 65535

(* The authority of a URL with a scheme that is not special: userinfo up to
   the last "@", host, ":" and port.  An "@" with nothing after it, a port
   without a host, a port that is not a number and a port above 65535 are
   failures. *)
UrlWithAuthority(scheme, authority, path) ==
  LET at == LastIndexOf(authority, "@")
      userinfo == Upto(authority, at - 1)
      hostport == From(authority, at + 1)
      colon == IndexOf(hostport, ":")
      host == IF colon = 0 THEN hostport ELSE Upto(hostport, colon - 1)
      port == IF colon = 0 THEN << >> ELSE From(hostport, colon + 1)
      pw == IndexOf(userinfo, ":")
  IN IF at > 0 /\ hostport = << >> THEN InvalidURL
     ELSE IF colon > 0 /\ host = << >> THEN InvalidURL
     ELSE IF \E i \in DOMAIN port : port[i] \notin Digits THEN InvalidURL
     ELSE IF port # << >> /\ Decimal(port) > MaxPortNumber THEN InvalidURL
     ELSE [ok |-> TRUE, protocol |-> Join(scheme) \o ":", hostname |-> Join(host),
           port |-> IF port = << >> THEN "" ELSE ToString(Decimal(port)),
           username |-> Join(IF pw = 0 THEN userinfo ELSE Upto(userinfo, pw - 1)),
           password |-> IF pw = 0 THEN "" ELSE Join(From(userinfo, pw + 1)),
           pathname |-> path]

(* new URL(text) without a base: the scheme is the letters, digits, "+", "-"
   and "." before the first ":" and starts with a letter; "//" opens an
   authority that runs to the next "/"; what remains is the path. *)
URL(text) ==
  LET colon == IndexOf(text, ":")
      scheme == Upto(text, colon - 1)
      rest == From(text, colon + 1)
      slash == IndexOf(From(rest, 3), "/")
  IN IF colon < 2 \/ scheme[1] \notin Letters
          \/ \E i \in DOMAIN scheme : scheme[i] \notin Letters \cup Digits \cup {"+", "-", "."}
       THEN InvalidURL
     ELSE IF Len(rest) >= 2 /\ rest[1] = "/" /\ rest[2] = "/"
       THEN IF slash = 0
              THEN UrlWithAuthority(scheme, From(rest, 3), << >>)
              ELSE UrlWithAuthority(scheme, SubSeq(rest, 3, slash + 1), From(rest, slash + 2))
     ELSE [ok |-> TRUE, protocol |-> Join(scheme) \o ":", hostname |-> "", port |-> "",
           username |-> "", password |-> "", pathname |-> rest]

DefaultPort == 3306

ErrInvalidUri == "Invalid MySQL URI provided."
ErrInvalidProtocol == "Invalid protocol. URI must start with mysql://"
ErrInvalidFormat(text) == "Invalid MySQL URI format: " \o Join(text)

PoolOptions_NoDefaultHost(url) ==
  [host |-> url.hostname,
   port |-> IF url.port # "" THEN parseInt(url.port) ELSE Num(DefaultPort),
   user |-> url.username,
   password |-> url.password,
   database |-> IF url.pathname # << >> THEN Join(Tail(url.pathname)) ELSE ABSENT,
   connectionLimit |-> connectionLimit]

(* The options handed to mariadb.createPool. *)
PoolOptions(url) ==
  [host |-> IF url.hostname # "" THEN url.hostname ELSE "localhost",
   port |-> IF url.port # "" THEN parseInt(url.port) ELSE Num(DefaultPort),
   user |-> url.username,
   password |-> url.password,
   database |-> IF url.pathname # << >> THEN Join(Tail(url.pathname)) ELSE ABSENT,
   connectionLimit |-> connectionLimit]

Thrown_AfterCreatePool(message) ==
  [error |-> message, pool |-> << [connectionLimit |-> connectionLimit] >>, database |-> ABSENT]

(* throw new Error(message): nothing is returned, no pool exists. *)
Thrown(message) == [error |-> message, pool |-> << >>, database |-> ABSENT]

(* parseMySqlUriAndCreatePool(mysqlUri): the error it throws, or the pool it
   created (as the options the pool was created with) and the database. *)
parseMySqlUriAndCreatePool(mysqlUri) ==
  IF mysqlUri.type # "string" \/ mysqlUri.chars = << >> THEN Thrown(ErrInvalidUri)
  ELSE IF ~URL(mysqlUri.chars).ok THEN Thrown(ErrInvalidFormat(mysqlUri.chars))
  ELSE IF URL(mysqlUri.chars).protocol # "mysql:" THEN Thrown(ErrInvalidProtocol)
  ELSE [error |-> "", pool |-> << PoolOptions(URL(mysqlUri.chars)) >>,
        database |-> PoolOptions(URL(mysqlUri.chars)).database]

(* ----------------------------- startup -------------------------------- *)
(* Arguments startServer is called with: connection URIs put together from
   a scheme, "//", user and password, host, port and path, each present or
   not, and values that are not strings. *)
Schemes == {<<"m", "y", "s", "q", "l", ":">>, <<"p", "g", ":">>, << >>}
Slashes == {<<"/", "/">>, << >>}
UserInfos == {<<"u", ":", "p", "w", "@">>, <<"u", "@">>, << >>}
Hosts == {<<"d", "b">>, << >>}
Ports == {<<":", "3", "3", "0", "7">>, <<":", "0">>, <<":", "7", "0", "0", "0", "0">>,
          <<":", "h">>, << >>}
Paths == {<<"/", "s", "h", "o", "p">>, <<"/">>, << >>}

UriArgs ==
  {Str(sc \o sl \o ui \o ho \o po \o pa) :
     sc \in Schemes, sl \in Slashes, ui \in UserInfos, ho \in Hosts, po \in Ports, pa \in Paths}
    \cup {NotAString("undefined"), NotAString("number"), NotAString("object")}

(* The deployment under study serves the schema dbName. *)
StartupUris ==
  {a \in UriArgs : parseMySqlUriAndCreatePool(a).error # ""
                     \/ parseMySqlUriAndCreatePool(a).database = dbName}

(* proc counts what the process has done: calls of
   parseMySqlUriAndCreatePool, acquisitions and releases of the connectivity
   test, SIGINT deliveries, SIGINT handlers waiting for pool.end(), and
   SIGINT handlers whose pool.end() was rejected. *)
NotStarted ==
  [attempts |-> 0, testAcquired |-> 0, testReleased |-> 0,
   signals |-> 0, awaiting |-> 0, rejected |-> 0]

StartServer_ListenOnFailure ==
  /\ phase = "start"
  /\ \E dbUri \in StartupUris :
       LET result == parseMySqlUriAndCreatePool(dbUri)
       IN /\ phase' = IF result.error # "" THEN "listening" ELSE "testGetConnection"
          /\ pool' = IF result.error # "" THEN "none" ELSE "open"
  /\ proc' = [proc EXCEPT !.attempts = @ + 1]
  /\ UNCHANGED <<startConn, busy, db, req, call>>

(* const result = parseMySqlUriAndCreatePool(dbUri); pool = result.pool; a
   throw is caught and answered with process.exit(1). *)
StartServer ==
  /\ phase = "start"
  /\ \E dbUri \in StartupUris :
       LET result == parseMySqlUriAndCreatePool(dbUri)
       IN /\ phase' = IF result.error # "" THEN "exit1" ELSE "testGetConnection"
          /\ pool' = IF result.error # "" THEN "none" ELSE "open"
  /\ proc' = [proc EXCEPT !.attempts = @ + 1]
  /\ UNCHANGED <<startConn, busy, db, req, call>>

(* const conn = await pool.getConnection() of the connectivity test; a
   rejection is caught and answered with process.exit(1). *)
TestGetConnection ==
  /\ phase = "testGetConnection"
  /\ \/ /\ busy # Conns
        /\ startConn' = SetMin(Conns \ busy)
        /\ busy' = busy \cup {startConn'}
        /\ phase' = "testRelease"
        /\ proc' = [proc EXCEPT !.testAcquired = @ + 1]
     \/ /\ phase' = "exit1"
        /\ UNCHANGED <<startConn, busy, proc>>
  /\ UNCHANGED <<db, req, pool, call>>

(* await conn.release(); the routes are registered, app.listen is called
   and the SIGINT handler is installed.  A rejection is caught and answered
   with process.exit(1). *)
TestRelease ==
  /\ phase = "testRelease"
  /\ \/ /\ busy' = busy \ {startConn}
        /\ phase' = "listening"
        /\ proc' = [proc EXCEPT !.testReleased = @ + 1]
     \/ /\ phase' = "exit1"
        /\ UNCHANGED <<busy, proc>>
  /\ UNCHANGED <<startConn, db, req, pool, call>>

(* The status the process has exited with: process.exit(1) of startServer's
   catch, process.exit(0) of the SIGINT handler, 1 when a rejection nobody
   handles ends the process; nothing while it runs. *)
ExitStatus ==
  CASE phase = "exit1" -> << 1 >>
    [] phase = "exit0" -> << 0 >>
    [] phase = "crashed" -> << 1 >>
    [] OTHER -> << >>

(* No function application is under study. *)
NoCall == [fn |-> "", arg |-> << >>, out |-> << >>]

Init ==
  /\ phase = "start"
  /\ startConn = 0
  /\ busy = {}
  /\ \E k \in 0..MaxRows :
       db = [exists |-> TRUE, rows |-> [i \in 1..k |-> i], nextId |-> k + 1]
  /\ req = [r \in Requests |-> Idle]
  /\ pool = "none"
  /\ proc = NotStarted
  /\ call = NoCall

Next ==
  \/ StartServer
  \/ TestGetConnection
  \/ TestRelease
  \/ \E r \in Requests :
       \/ ApiRequest(r)
       \/ TablesRequest(r)
       \/ TableDataRequest(r)
       \/ QueryRequest(r)
       \/ GetConnection(r)
       \/ GetConnectionFails(r)
       \/ ShowTables(r)
       \/ CountQuery(r)
       \/ DataQuery(r)
       \/ RawQuery(r)
       \/ QueryFails(r)
       \/ Release(r)

Spec == Init /\ [][Next]_vars

(* Every await of a running handler settles: the acquire resolves or
   rejects, a pending query resolves or rejects, the release returns. *)
Settles(r) ==
  \/ GetConnection(r)
  \/ GetConnectionFails(r)
  \/ ShowTables(r)
  \/ CountQuery(r)
  \/ DataQuery(r)
  \/ RawQuery(r)
  \/ QueryFails(r)
  \/ Release(r)

(* Requests under fair scheduling, on an empty table `users`: the listing,
   a page of `users`, the absent table, and raw queries that read, drop or
   lack a statement. *)
LiveTableDataInputs ==
  {[tableName |-> "users", page |-> ABSENT, limit |-> ABSENT],
   [tableName |-> "ghost", page |-> ABSENT, limit |-> ABSENT]}

LiveQueryInputs == {ABSENT, RawSelect, RawDrop}

LiveInit ==
  /\ phase = "start"
  /\ startConn = 0
  /\ busy = {}
  /\ db = [exists |-> TRUE, rows |-> << >>, nextId |-> 1]
  /\ req = [r \in Requests |-> Idle]
  /\ pool = "none"
  /\ proc = NotStarted
  /\ call = NoCall

LiveNext ==
  \/ StartServer
  \/ TestGetConnection
  \/ TestRelease
  \/ \E r \in Requests :
       \/ TablesRequest(r)
       \/ TableDataRequestOf(r, LiveTableDataInputs)
       \/ QueryRequestOf(r, LiveQueryInputs)
       \/ Settles(r)

LiveSpec == LiveInit /\ [][LiveNext]_vars /\ \A r \in Requests : WF_vars(Settles(r))

(* ----------------------------- shutdown ------------------------------- *)
(* process.on('SIGINT'): if (pool) await pool.end().  The first call of
   pool.end() marks the pool closed and starts closing it; a call on a pool
   that is already marked closed is rejected ("pool is already closed"),
   which nobody handles: the runtime reports the rejection and, depending on
   its version, ends the process with status 1 or carries on. *)
Sigint ==
  /\ phase = "listening" /\ proc.signals < MaxSignals
  /\ IF pool = "open"
       THEN /\ pool' = "ending"
            /\ proc' = [proc EXCEPT !.signals = @ + 1, !.awaiting = @ + 1]
            /\ phase' = phase
       ELSE /\ pool' = pool
            /\ proc' = [proc EXCEPT !.signals = @ + 1, !.rejected = @ + 1]
            /\ \E ends \in BOOLEAN : phase' = IF ends THEN "crashed" ELSE phase
  /\ UNCHANGED <<startConn, busy, db, req, call>>

(* await pool.end() resolves and process.exit(0) runs.  The driver resolves
   when it has closed the idle connections: it does not wait for checked-out
   connections, or gives up waiting after a timeout, so handlers may still
   hold connections. *)
PoolEnd ==
  /\ phase = "listening" /\ pool = "ending" /\ proc.awaiting > 0
  /\ pool' = "closed"
  /\ proc' = [proc EXCEPT !.awaiting = @ - 1]
  /\ phase' = "exit0"
  /\ UNCHANGED <<startConn, busy, db, req, call>>

ShutdownNext == Next \/ Sigint \/ PoolEnd

ShutdownSpec == Init /\ [][ShutdownNext]_vars

(* --------------------------- pool under load -------------------------- *)
(* One more handler than the pool has connections, each a POST /api/query
   with the same SELECT, so that all connections can be checked out while a
   handler asks for one. *)
Handlers == 1..(connectionLimit + 1)

PoolInit ==
  /\ phase = "start"
  /\ startConn = 0
  /\ busy = {}
  /\ db = [exists |-> TRUE, rows |-> << >>, nextId |-> 1]
  /\ req = [r \in Handlers |-> Idle]
  /\ pool = "none"
  /\ proc = NotStarted
  /\ call = NoCall

SelectRequest(r) == QueryRequestOf(r, {RawSelect})

(* The queries are slow and resolve; an acquire may be rejected (the pool
   gives up after its timeout). *)
PoolNext ==
  \/ StartServer
  \/ TestGetConnection
  \/ TestRelease
  \/ \E r \in Handlers :
       \/ SelectRequest(r)
       \/ GetConnection(r)
       \/ GetConnectionFails(r)
       \/ RawQuery(r)
       \/ Release(r)

PoolSpec == PoolInit /\ [][PoolNext]_vars

(* ------------------ connection resolver, applied ----------------------- *)
(* call = [fn, arg, out]: a function applied to an argument, and its result
   once it has returned. *)
Applied(fn) == call.fn = fn /\ call.out # << >>

UriInit ==
  /\ phase = "start"
  /\ startConn = 0
  /\ busy = {}
  /\ db = [exists |-> TRUE, rows |-> << >>, nextId |-> 1]
  /\ req = [r \in Requests |-> Idle]
  /\ pool = "none"
  /\ proc = NotStarted
  /\ \E mysqlUri \in UriArgs :
       call = [fn |-> "parseMySqlUriAndCreatePool", arg |-> << mysqlUri >>, out |-> << >>]

(* parseMySqlUriAndCreatePool(mysqlUri) returns or throws. *)
ResolveUri ==
  /\ call.fn = "parseMySqlUriAndCreatePool" /\ call.out = << >>
  /\ call' = [call EXCEPT !.out = << parseMySqlUriAndCreatePool(call.arg[1]) >>]
  /\ UNCHANGED <<phase, startConn, busy, db, req, pool, proc>>

UriNext == ResolveUri

UriSpec == UriInit /\ [][UriNext]_vars

(* ---------------------- row normalizer, applied ----------------------- *)
(* Values a driver row can hold: BigInts inside and outside the range of
   exact JSON numbers, strings (also of digits), a number, a boolean, null. *)
RowValues ==
  {BigIntValue(1), BigInt("9007199254740993"), BigInt("18446744073709551611"),
   StringValue("n1"), StringValue("7"), [type |-> "number", v |-> "7"],
   [type |-> "boolean", v |-> "true"], [type |-> "null", v |-> ""]}

FieldKeys == <<"id", "name", "visits">>

(* Rows of up to MaxFields fields. *)
DriverRows ==
  UNION {{[j \in 1..n |-> [key |-> FieldKeys[j], value |-> f[j]]] : f \in [1..n -> RowValues]} :
           n \in 0..MaxFields}

NormalizeInit ==
  /\ phase = "start"
  /\ startConn = 0
  /\ busy = {}
  /\ db = [exists |-> TRUE, rows |-> << >>, nextId |-> 1]
  /\ req = [r \in Requests |-> Idle]
  /\ pool = "none"
  /\ proc = NotStarted
  /\ \E row \in DriverRows : call = [fn |-> "processRow", arg |-> << row >>, out |-> << >>]

(* The per-row callback of rows.map is applied to the row, and then to the
   row it returned. *)
Normalize ==
  /\ call.fn = "processRow" /\ Len(call.out) < MaxApplications
  /\ call' = [call EXCEPT
                !.out = Append(@, ProcessRow(IF @ = << >> THEN call.arg[1] ELSE Last(@)))]
  /\ UNCHANGED <<phase, startConn, busy, db, req, pool, proc>>

NormalizeNext == Normalize

NormalizeSpec == NormalizeInit /\ [][NormalizeNext]_vars

(* ------------------------- serialization ------------------------------ *)
(* Row lists whose rows need not share their keys: every row has up to
   MaxFields of the keys, in any order. *)
ValueOfKey(key) ==
  CASE key = "id" -> BigIntValue(1)
    [] key = "name" -> StringValue("n1")
    [] OTHER -> BigInt("18446744073709551611")

KeyLists ==
  UNION {{k \in [1..n -> {FieldKeys[j] : j \in DOMAIN FieldKeys}] :
            \A a, b \in 1..n : a # b => k[a] # k[b]} : n \in 0..MaxFields}

MixedRows == {[j \in DOMAIN k |-> [key |-> k[j], value |-> ValueOfKey(k[j])]] : k \in KeyLists}

RowLists == UNION {[1..n -> MixedRows] : n \in 0..MaxRows}

SerializeInit ==
  /\ phase = "start"
  /\ startConn = 0
  /\ busy = {}
  /\ db = [exists |-> TRUE, rows |-> << >>, nextId |-> 1]
  /\ req = [r \in Requests |-> Idle]
  /\ pool = "none"
  /\ proc = NotStarted
  /\ \E rows \in RowLists : call = [fn |-> "serialize", arg |-> << rows >>, out |-> << >>]

(* processedRows = rows.map(...); new Serializer(type, {attributes: ...})
   .serialize(processedRows), as both handlers do it. *)
SerializeRows ==
  /\ call.fn = "serialize" /\ call.out = << >>
  /\ \E type \in {"users", "query-result"} :
       call' = [call EXCEPT
                  !.out = << Serialize(type, Attributes(ProcessRows(call.arg[1])),
                                       ProcessRows(call.arg[1])) >>]
  /\ UNCHANGED <<phase, startConn, busy, db, req, pool, proc>>

SerializeNext == SerializeRows

SerializeSpec == SerializeInit /\ [][SerializeNext]_vars

(* --------------------- dispatch (404 variant) -------------------------- *)
(* The variant of the server that installs a catch-all 404 middleware.  A
   request is a method and a path (its segments); the application's stack
   holds the layers in the order app.use / app.get registered them.  A
   layer without a method is a middleware mounted at a path prefix; a layer
   with a method is a route, whose pattern matches the whole path, a
   parameter segment matching any segment.  ends tells whether the
   layer answers the request instead of calling next(). *)
Layer(name, method, pattern, ends) ==
  [name |-> name, method |-> method, pattern |-> pattern, ends |-> ends]

Stack ==
  << Layer("csp", "", << >>, FALSE),
     Layer("notFound", "", << >>, TRUE),
     Layer("json", "", << >>, FALSE),
     Layer("api-docs", "", << "api-docs" >>, TRUE),
     Layer("api", "GET", << "api" >>, TRUE),
     Layer("tables", "GET", << "api", "tables" >>, TRUE),
     Layer("tableData", "GET", << "api", "tables", ":tableName" >>, TRUE) >>

(* No layer is left: express answers 404 itself. *)
FinalHandler == Layer("finalhandler", "", << >>, TRUE)

Params == {":tableName"}

SegmentMatches(pattern, segment) == pattern = segment \/ pattern \in Params

Matches(layer, request) ==
  /\ Len(layer.pattern) <= Len(request.path)
  /\ \A i \in DOMAIN layer.pattern : SegmentMatches(layer.pattern[i], request.path[i])
  /\ layer.method # "" =>
       layer.method = request.method /\ Len(layer.pattern) = Len(request.path)

DispatchMethods == {"GET", "POST", "PUT", "DELETE"}

DispatchPaths ==
  {<< >>, << "api" >>, << "api", "tables" >>, << "api", "tables", "users" >>,
   << "api", "tables", "ghost" >>, << "api", "tables", "users", "rows" >>,
   << "api", "query" >>, << "api-docs" >>, << "api-docs", "swagger.json" >>, << "favicon.ico" >>}

DispatchInit ==
  /\ phase = "start"
  /\ startConn = 0
  /\ busy = {}
  /\ db = [exists |-> TRUE, rows |-> << >>, nextId |-> 1]
  /\ req = [r \in Requests |-> Idle]
  /\ pool = "none"
  /\ proc = NotStarted
  /\ \E method \in DispatchMethods, path \in DispatchPaths :
       call = [fn |-> "dispatch", arg |-> << [method |-> method, path |-> path] >>, out |-> << >>]

StackIndex(name) == CHOOSE i \in DOMAIN Stack : Stack[i].name = name

(* next(): the first layer after the one that ran last that matches the
   request runs; call.out lists the layers that ran. *)
RunNextLayer ==
  /\ call.fn = "dispatch"
  /\ IF call.out = << >> THEN TRUE ELSE ~Last(call.out).ends
  /\ LET from == IF call.out = << >> THEN 1 ELSE StackIndex(Last(call.out).name) + 1
         matching == {i \in from..Len(Stack) : Matches(Stack[i], call.arg[1])}
     IN call' = [call EXCEPT
                   !.out = Append(@, IF matching = {} THEN FinalHandler
                                     ELSE Stack[SetMin(matching)])]
  /\ UNCHANGED <<phase, startConn, busy, db, req, pool, proc>>

DispatchNext == RunNextLayer

DispatchSpec == DispatchInit /\ [][DispatchNext]_vars

(* ============================ properties ============================== *)
Answered(r) == req[r].res # << >>

Response(r) == req[r].res[1]

(* A successful table-data response of request r. *)
TableDataOk(r) == req[r].kind = "tableData" /\ Answered(r) /\ Response(r).status = 200

PaginationOf(r) == Response(r).body.meta.pagination

(* The ids of the rows a response document carries. *)
IdsOf(r) == [i \in DOMAIN Response(r).body.data |-> Response(r).body.data[i].id]

IdStrings(ids) == [i \in DOMAIN ids |-> ToString(ids[i])]

SentOps(r) == {req[r].sent[i].op : i \in DOMAIN req[r].sent}

UsesPool(r) == req[r].kind \in {"tables", "tableData", "query"}

(* C1: a handler that acquired a connection releases it exactly once on
   every exit path (success, 404, driver error): it never holds more than
   one, never releases more often than it acquired, holds the connection
   while it runs, and has released it when it has returned. *)
C1_ReleasedExactlyOnce ==
  \A r \in Requests :
    /\ req[r].acquired <= 1
    /\ req[r].released <= req[r].acquired
    /\ InFlight(req[r]) /\ req[r].acquired = 1 =>
         req[r].released = 0 /\ req[r].conn \in busy
    /\ req[r].pc = "done" => req[r].released = req[r].acquired
    /\ req[r].pc = "done" /\ UsesPool(r) /\ Len(req[r].sent) > 0 => req[r].released = 1

C1_Witness ==
  \E r1, r2 \in Requests :
    /\ req[r1].pc = "done" /\ req[r1].kind = "tableData" /\ Response(r1).status = 404
    /\ req[r1].acquired = 1 /\ req[r1].released = 1
    /\ req[r2].pc = "done" /\ req[r2].kind = "query" /\ Response(r2).status = 500
    /\ req[r2].acquired = 1 /\ req[r2].released = 1

(* C2: once the server listens and no request is in flight, no connection
   is checked out of the pool, whatever mix of requests has completed. *)
C2_PoolBalanced ==
  phase = "listening" /\ (\A r \in Requests : ~InFlight(req[r])) => busy = {}

C2_Witness ==
  /\ busy = {}
  /\ \A r \in Requests : req[r].pc = "done" /\ req[r].acquired = 1
  /\ \E r1, r2 \in Requests : Response(r1).status = 200 /\ Response(r2).status = 500

(* C3 as stated: pages is at least 1 in every successful table-data
   response, also when total is 0. *)
C3_PagesAtLeastOne ==
  \A r \in Requests :
    TableDataOk(r) => PaginationOf(r).pages.kind = "num" /\ PaginationOf(r).pages.n >= 1

(* C3 as amended: pages is 1 when limit is "all"; with a positive numeric
   limit pages is at least 1 exactly when total is at least 1, and is 0 for
   an empty table. *)
C3_PagesAtLeastOneUnlessEmpty ==
  \A r \in Requests :
    TableDataOk(r) =>
      /\ Limit(req[r]) = "all" => PaginationOf(r).pages = Num(1)
      /\ Limit(req[r]) # "all" /\ PaginationOf(r).limit.n > 0 =>
           /\ PaginationOf(r).pages.kind = "num"
           /\ PaginationOf(r).total.n >= 1 => PaginationOf(r).pages.n >= 1
           /\ PaginationOf(r).total.n = 0 => PaginationOf(r).pages.n = 0

C3_Witness ==
  \E r \in Requests :
    /\ TableDataOk(r) /\ req[r].limit = ABSENT
    /\ PaginationOf(r).total.n = 0 /\ PaginationOf(r).pages.n = 0

(* C4: every successful table-data response to a request with a numeric
   limit has pages = ceil(total/limit), a number, and at most limit rows. *)
C4_PagesIsCeiling ==
  \A r \in Requests :
    TableDataOk(r) /\ Limit(req[r]) # "all" =>
      /\ PaginationOf(r).pages.kind = "num"
      /\ PaginationOf(r).limit.n > 0 =>
           PaginationOf(r).pages.n = CeilDiv(PaginationOf(r).total.n, PaginationOf(r).limit.n)
      /\ Len(Response(r).body.data) <= PaginationOf(r).limit.n

(* C5: every successful table-data response to a request with limit "all"
   has pages = 1 and total equal to the number of rows it returns. *)
C5_TotalIsRowCount ==
  \A r \in Requests :
    TableDataOk(r) /\ Limit(req[r]) = "all" =>
      /\ PaginationOf(r).pages = Num(1)
      /\ PaginationOf(r).total.n = Len(Response(r).body.data)

(* The rows at positions (p-1)*L+1 .. min(p*L, T) of the table. *)
PageOfRows(ids, p, L) == SubSeq(ids, (p - 1) * L + 1, Min(p * L, Len(ids)))

(* C6: when `users` is not written while the request runs, the response to
   page p >= 1 and limit L >= 1 carries exactly rows (p-1)*L+1 .. min(p*L, T)
   and pagination {p, L, T, ceil(T/L)}; an omitted page is 1 and an omitted
   limit is 50. *)
C6_PageWindow ==
  \A r \in Requests :
    TableDataOk(r) /\ req[r].pc = "release" /\ ~req[r].written /\ Limit(req[r]) # "all" =>
      LET p == IF req[r].page = ABSENT THEN 1 ELSE parseInt(req[r].page).n
          L == IF req[r].limit = ABSENT THEN 50 ELSE parseInt(req[r].limit).n
          T == Len(db.rows)
      IN p >= 1 /\ L >= 1 =>
           /\ IdsOf(r) = IdStrings(PageOfRows(db.rows, p, L))
           /\ PaginationOf(r) = [page |-> Num(p), limit |-> Num(L), total |-> Num(T),
                                 pages |-> Num(CeilDiv(T, L))]

C6_Witness ==
  \E r \in Requests :
    /\ TableDataOk(r) /\ req[r].pc = "release" /\ ~req[r].written
    /\ req[r].page = "2" /\ req[r].limit = "1" /\ Len(db.rows) = 2
    /\ IdsOf(r) = << ToString(db.rows[2]) >> /\ PaginationOf(r).pages = Num(2)

(* C7: a table-data request whose table name is not in the listing it
   fetched is answered 404 with errors[0].status = "404", and sends no count
   query and no row query. *)
C7_UnknownTableIs404 ==
  \A r \in Requests :
    req[r].kind = "tableData" /\ req[r].allTables # << >>
      /\ (\A i \in DOMAIN req[r].allTables[1] : req[r].allTables[1][i] # req[r].tableName) =>
        /\ Len(req[r].res) = 1
        /\ Response(r).status = 404
        /\ Response(r).body.errors[1].status = "404"
        /\ SentOps(r) = {"SHOW TABLES"}

C7_Witness ==
  \E r \in Requests :
    /\ req[r].kind = "tableData" /\ req[r].tableName = "users" /\ req[r].allTables = << << >> >>
    /\ Response(r).status = 404 /\ req[r].pc = "release"

(* C8: the table-data handler sends a count query or a row query only after
   its SHOW TABLES listing has resolved and contains the table name. *)
C8_ExistenceCheckFirst ==
  \A r \in Requests :
    req[r].kind = "tableData" /\ SentOps(r) \cap {"SELECT COUNT", "SELECT"} # {} =>
      /\ req[r].sent[1].op = "SHOW TABLES"
      /\ \A i \in DOMAIN req[r].sent : req[r].sent[i].op # "SHOW TABLES" => i > 1
      /\ InFlight(req[r]) =>
           /\ req[r].allTables # << >>
           /\ \E i \in DOMAIN req[r].allTables[1] : req[r].allTables[1][i] = req[r].tableName

C8_Witness ==
  \E r \in Requests :
    /\ req[r].kind = "tableData" /\ req[r].pc = "select"
    /\ Len(req[r].sent) = 3 /\ req[r].sent[3].op = "SELECT"

(* C9: POST /api/query without a query key or with an empty query is
   answered 400 "Bad Request"; no connection is acquired and no SQL is sent. *)
C9_MissingQueryIs400 ==
  \A r \in Requests :
    req[r].kind = "query" /\ (req[r].query = ABSENT \/ req[r].query = "") =>
      /\ req[r].pc = "done"
      /\ Len(req[r].res) = 1
      /\ Response(r).status = 400
      /\ Response(r).body.errors[1].title = "Bad Request"
      /\ Response(r).body.errors[1].status = "400"
      /\ req[r].acquired = 0
      /\ req[r].sent = << >>

C9_Witness ==
  \E r1, r2 \in Requests :
    /\ req[r1].kind = "query" /\ req[r1].query = "" /\ Response(r1).status = 400
    /\ req[r2].kind = "query" /\ req[r2].query = ABSENT /\ Response(r2).status = 400
    /\ busy = {}

(* C10: every error response (400, 404, 500) of every route has the body
   {errors: [{status, title, detail}]} with status the string form of the
   HTTP status code. *)
C10_ErrorEnvelope ==
  \A r \in Requests :
    Answered(r) /\ Response(r).status \in {400, 404, 500} =>
      /\ DOMAIN Response(r).body = {"errors"}
      /\ Len(Response(r).body.errors) = 1
      /\ DOMAIN Response(r).body.errors[1] = {"status", "title", "detail"}
      /\ Response(r).body.errors[1].status = ToString(Response(r).status)

(* C11: a failed URI resolution, pool creation or connectivity test ends
   the process with exit status 1 before it listens or serves a request; the
   server listens, and requests are handled, only after the connectivity
   test has acquired and released its connection; startup runs once. *)
C11_FatalStartup ==
  /\ proc.attempts <= 1 /\ proc.testAcquired <= 1 /\ proc.testReleased <= proc.testAcquired
  /\ phase # "start" /\ pool = "none" => ExitStatus = << 1 >>
  /\ phase \notin {"start", "testGetConnection"} /\ proc.testAcquired = 0 => ExitStatus = << 1 >>
  /\ phase \notin {"start", "testGetConnection", "testRelease"} /\ proc.testReleased = 0 =>
       ExitStatus = << 1 >>
  /\ phase = "exit1" => proc.testReleased = 0 /\ \A r \in Requests : req[r] = Idle
  /\ phase = "listening" \/ (\E r \in Requests : req[r] # Idle) =>
       /\ proc.attempts = 1 /\ proc.testAcquired = 1 /\ proc.testReleased = 1
       /\ pool # "none"

C11_Witness ==
  /\ phase = "exit1" /\ ExitStatus = << 1 >>
  /\ pool = "open" /\ proc.attempts = 1 /\ proc.testAcquired = 0

(* C12: after a termination signal the pool is closed only when no request
   holds a connection any more, the process exits only with the pool closed,
   and the exit status after one signal is 0. *)
C12_GracefulShutdown ==
  /\ pool = "closed" => busy = {} /\ \A r \in Requests : req[r].conn = 0
  /\ phase = "exit0" => pool = "closed"
  /\ proc.signals = 1 /\ ExitStatus # << >> => ExitStatus = << 0 >>

(* C13: a termination signal delivered more than once has the outcome of a
   single one: no call of the shutdown is rejected, and when the process has
   exited the pool is closed and the exit status is 0. *)
C13_ShutdownIdempotent ==
  proc.signals >= 2 =>
    /\ proc.rejected = 0
    /\ ExitStatus # << >> => pool = "closed" /\ ExitStatus = << 0 >>

(* The message an error response reports. *)
MessageOf(response) ==
  IF "errors" \in DOMAIN response.body THEN response.body.errors[1].detail
  ELSE response.body.error

(* C14: when a request has been answered with a driver error, the process
   still runs and the pool is still open; the response reports the driver's
   message; the connections checked out are exactly those held by running
   handlers, so the failed request's connection is back; and a request
   waiting for a connection can get one. *)
C14_PoolSurvivesDriverError ==
  \A r \in Requests :
    Answered(r) /\ Response(r).status = 500 =>
      /\ ExitStatus = << >> /\ phase = "listening" /\ pool = "open"
      /\ MessageOf(Response(r)) \in {ErrLost, ErrNoTable, ErrSyntax, ErrExists, ErrUnknown,
                                     ErrNotArray}
      /\ req[r].pc = "done" => req[r].released = req[r].acquired /\ req[r].conn = 0
      /\ busy = {req[x].conn : x \in {y \in Requests : req[y].conn # 0}}
      /\ \A x \in Requests : req[x].pc = "getConnection" => busy # Conns

C14_Witness ==
  /\ req[1].pc = "done" /\ Response(1).status = 500 /\ MessageOf(Response(1)) = ErrLost
  /\ req[1].acquired = 1 /\ req[1].released = 1
  /\ req[2].pc = "showTables" /\ req[2].conn = 1 /\ pool = "open"

DriverErrors == {ErrLost, ErrNoTable, ErrSyntax, ErrExists, ErrUnknown}

(* C15: POST /api/query refuses no non-empty SQL text, and answers 500 only
   when the driver reported an execution error: a statement the driver
   executed, a write whose result is no row list included, is answered with
   a query-result document. *)
C15_WritesSucceed ==
  \A r \in Requests :
    req[r].kind = "query" /\ Answered(r) /\ req[r].query \notin {ABSENT, ""} =>
      /\ Response(r).status \in {200, 500}
      /\ Response(r).status = 500 => MessageOf(Response(r)) \in DriverErrors

(* C16: when the driver rejects the statement of a POST /api/query request
   (the statement fails, or the connection is lost), the handler answers once,
   with status 500, title "Database Error" and the driver's message as detail,
   and it has sent the statement once. *)
C16_DriverErrorIs500 ==
  [][\A r \in Requests :
       req[r].kind = "query" /\ req[r].pc = "query" /\ req'[r].pc # "query" =>
         /\ req'[r].sent = req[r].sent /\ req[r].sent = << ParseRaw(req[r].query) >>
         /\ Len(req'[r].res) = 1
         /\ Execute(db, Last(req[r].sent)).err # "" =>
              /\ req'[r].res[1].status = 500
              /\ req'[r].res[1].body.errors[1].title = "Database Error"
              /\ req'[r].res[1].body.errors[1].detail
                   \in {Execute(db, Last(req[r].sent)).err, ErrLost}
              /\ db' = db
         /\ req'[r].res[1].status = 500 /\ req'[r].res[1].body.errors[1].detail \in DriverErrors =>
              req'[r].res[1] = ErrorEnvelope(500, "Database Error",
                                             req'[r].res[1].body.errors[1].detail)]_vars

C16_Witness ==
  \E r \in Requests :
    /\ req[r].kind = "query" /\ req[r].query = RawBad /\ req[r].pc = "release"
    /\ req[r].sent = << BadSql >>
    /\ req[r].res = << ErrorEnvelope(500, "Database Error", ErrSyntax) >>

(* A mysql:// URI assembled from its parts, and whether the parts make a
   valid URI: a user or a port needs a host, and a port is a number up to
   65535. *)
MySqlUri(ui, ho, po, pa) == Str(<<"m", "y", "s", "q", "l", ":", "/", "/">> \o ui \o ho \o po \o pa)

ValidParts(ui, ho, po) ==
  /\ ho = << >> => ui = << >> /\ po = << >>
  /\ po \in {<< >>, <<":", "3", "3", "0", "7">>, <<":", "0">>}

ExpectedPort(po) ==
  CASE po = << >> -> 3306
    [] po = <<":", "3", "3", "0", "7">> -> 3307
    [] po = <<":", "0">> -> 0

(* What the resolver returns for every valid mysql:// URI, given the
   database it is to return for the path "/". *)
ResolvesWith(slashOnly) ==
  \A ui \in UserInfos, ho \in Hosts, po \in Ports, pa \in Paths :
    /\ Applied("parseMySqlUriAndCreatePool")
    /\ call.arg[1] = MySqlUri(ui, ho, po, pa)
    /\ ValidParts(ui, ho, po)
    => /\ call.out[1].error = "" /\ Len(call.out[1].pool) = 1
       /\ call.out[1].pool[1].port = Num(ExpectedPort(po))
       /\ call.out[1].pool[1].host = (IF ho = << >> THEN "localhost" ELSE "db")
       /\ call.out[1].pool[1].user = (IF ui = << >> THEN "" ELSE "u")
       /\ call.out[1].database =
            (IF pa = << >> THEN ABSENT ELSE IF pa = <<"/">> THEN slashOnly ELSE "shop")
       /\ call.out[1].pool[1].database = call.out[1].database

(* C17 as stated: for every valid mysql:// URI the port is 3306 when absent
   and the parsed integer otherwise, the host is localhost when absent, the
   database is the path without its leading "/", and undefined both for no
   path and for the path "/"; a pool is created also without user or
   database. *)
C17_ResolverDefaults == ResolvesWith(ABSENT)

(* C17 as amended: the same, except that the path "/" gives the empty
   string as database; only a URI with no path gives undefined. *)
C17_ResolverDefaultsEmptyName == ResolvesWith("")

C17_Witness ==
  /\ Applied("parseMySqlUriAndCreatePool")
  /\ call.arg[1] = MySqlUri(<< >>, <<"d", "b">>, << >>, <<"/">>)
  /\ call.out[1].error = "" /\ call.out[1].database = ""
  /\ call.out[1].pool[1].port = Num(3306) /\ call.out[1].pool[1].user = ""

(* C18: the resolver throws the invalid-input error for an argument that is
   empty, not a string, or not parseable as a URI, and the unsupported-scheme
   error for a URI whose scheme is not mysql; whenever it throws, no pool has
   been created, and otherwise one has. *)
C18_ResolverErrors ==
  Applied("parseMySqlUriAndCreatePool") =>
    LET arg == call.arg[1]
        out == call.out[1]
    IN /\ out.error # "" => out.pool = << >> /\ out.database = ABSENT
       /\ out.error = "" => Len(out.pool) = 1
       /\ out.error \in {"", ErrInvalidUri, ErrInvalidFormat(arg.chars), ErrInvalidProtocol}
       /\ arg.type # "string" \/ arg.chars = << >> => out.error = ErrInvalidUri
       /\ arg.chars # << >> /\ (\A i \in DOMAIN arg.chars : arg.chars[i] # ":") =>
            out.error = ErrInvalidFormat(arg.chars)
       /\ \A sc \in Schemes \ {<< >>}, ui \in UserInfos, ho \in Hosts, po \in Ports, pa \in Paths :
            arg = Str(sc \o <<"/", "/">> \o ui \o ho \o po \o pa) =>
              IF ~ValidParts(ui, ho, po) THEN out.error = ErrInvalidFormat(arg.chars)
              ELSE IF sc = <<"p", "g", ":">> THEN out.error = ErrInvalidProtocol
              ELSE out.error = ""

C18_Witness ==
  /\ Applied("parseMySqlUriAndCreatePool")
  /\ call.arg[1] = Str(<<"p", "g", ":", "/", "/", "d", "b", "/", "s", "h", "o", "p">>)
  /\ call.out[1].error = ErrInvalidProtocol /\ call.out[1].pool = << >>

(* C19: normalizing a row replaces every 64-bit integer by its decimal
   string and keeps every other value and every key; normalizing the result
   again returns a row equal to it. *)
C19_NormalizeIdempotent ==
  Applied("processRow") =>
    /\ DOMAIN call.out[1] = DOMAIN call.arg[1]
    /\ \A j \in DOMAIN call.arg[1] :
         /\ call.out[1][j].key = call.arg[1][j].key
         /\ call.out[1][j].value =
              (IF call.arg[1][j].value.type = "bigint"
                 THEN StringValue(call.arg[1][j].value.v)
                 ELSE call.arg[1][j].value)
    /\ \A i \in 2..Len(call.out) : call.out[i] = call.out[1]

C19_Witness ==
  /\ Applied("processRow") /\ Len(call.out) = 2
  /\ call.arg[1] = << [key |-> "id", value |-> BigInt("9007199254740993")],
                      [key |-> "name", value |-> StringValue("7")] >>
  /\ call.out[1] # call.arg[1] /\ call.out[2] = call.out[1]

(* The rows the driver returned for the last statement of request r, while
   the table has not been written since. *)
NativeRows(r) == Execute(db, Last(req[r].sent)).rows

IsBigInt(value) == value.type = "bigint"

(* A 64-bit integer beyond 2^53 - 1: it has more than 16 digits (no value
   of the model has exactly 16). *)
ExceedsSafeRange(value) == value.type = "bigint" /\ Len(value.v) > 16

(* Every successful table-data and raw-query response carries, row by row
   and key by key, the driver's value, as its decimal string where
   Converts(value) holds and unchanged elsewhere; the pagination total is
   the number the driver's count query returns. *)
SerializedAfter(Converts(_)) ==
  \A r \in Requests :
    /\ req[r].kind \in {"tableData", "query"} /\ Answered(r) /\ Response(r).status = 200
    /\ req[r].pc = "release" /\ ~req[r].written
    => /\ Len(Response(r).body.data) = Len(NativeRows(r))
       /\ \A i \in DOMAIN NativeRows(r) :
            /\ DOMAIN Response(r).body.data[i].attributes = DOMAIN NativeRows(r)[i]
            /\ \A j \in DOMAIN NativeRows(r)[i] :
                 /\ Response(r).body.data[i].attributes[j].key = NativeRows(r)[i][j].key
                 /\ Response(r).body.data[i].attributes[j].value =
                      (IF Converts(NativeRows(r)[i][j].value)
                         THEN StringValue(NativeRows(r)[i][j].value.v)
                         ELSE NativeRows(r)[i][j].value)
       /\ req[r].kind = "tableData" =>
            PaginationOf(r).total
              = Num(TotalOf(Execute(db, CountSql(req[r].tableName)).rows))

LiveTables == IF db.exists THEN <<"users">> ELSE << >>

(* C21: a table-list or table-data handler waiting for its listing has sent
   a SHOW TABLES of its own, and when the listing resolves the handler acts
   on the tables that exist at that moment: the table list names them, the
   table-data handler answers 404 when its table is not among them and goes
   on to the count query when it is. *)
C21_LiveListing ==
  [][\A r \in Requests :
       req[r].pc = "showTables" /\ req'[r].pc # "showTables" =>
         /\ req[r].kind \in {"tables", "tableData"}
         /\ req[r].sent = << ShowTablesSql >> /\ req[r].allTables = << >>
         /\ \/ req'[r].res = << DatabaseError(ErrLost) >>
            \/ req'[r].res = << TableDataCatch(ErrLost) >>
            \/ /\ req[r].kind = "tables"
               /\ req'[r].res = << TableList(LiveTables) >>
            \/ /\ req[r].kind = "tableData"
               /\ \A i \in DOMAIN LiveTables : LiveTables[i] # req[r].tableName
               /\ req'[r].res = << NotFound(req[r].tableName) >>
            \/ /\ req[r].kind = "tableData"
               /\ \E i \in DOMAIN LiveTables : LiveTables[i] = req[r].tableName
               /\ req'[r].res = << >> /\ req'[r].pc = "count"]_vars

C21_Witness ==
  /\ req[1].kind = "query" /\ req[1].query = RawDrop /\ req[1].pc = "done"
  /\ req[2].kind = "tables" /\ req[2].pc = "release"
  /\ req[2].res = << TableList(<< >>) >> /\ ~db.exists

(* The connections handlers hold. *)
Held == {req[r].conn : r \in {x \in DOMAIN req : req[x].conn # 0}}

(* At most connectionLimit connections are checked out, each by one handler,
   and none by a handler that has finished. *)
WithinCapacity ==
  /\ busy \subseteq Conns /\ Cardinality(busy) <= connectionLimit
  /\ phase = "listening" => busy = Held
  /\ \A r1, r2 \in DOMAIN req : r1 # r2 /\ req[r1].conn # 0 => req[r1].conn # req[r2].conn
  /\ \A r \in DOMAIN req : req[r].pc \in {"idle", "getConnection", "done"} => req[r].conn = 0

(* C22: before and after every step the pool is within its capacity, and a
   handler gets a connection only in a step that starts with a connection
   free, and gets one that was free: with all five checked out it waits. *)
C22_PoolCapacity ==
  [][/\ WithinCapacity /\ WithinCapacity'
     /\ \A r \in DOMAIN req :
          req[r].conn = 0 /\ req'[r].conn # 0 =>
            /\ req[r].pc = "getConnection"
            /\ busy # Conns /\ req'[r].conn \notin busy
            /\ busy' = busy \cup {req'[r].conn}]_vars

C22_Witness ==
  /\ busy = Conns /\ Cardinality(Held) = connectionLimit
  /\ \E r \in DOMAIN req : req[r].pc = "getConnection"
  /\ \A r \in DOMAIN req : req[r].pc \in {"getConnection", "query"}

(* C25: a handler whose query is pending holds its connection; a connection
   goes back to the pool only in the release step of the handler that holds
   it, after its query has settled and it has answered; and while all five
   connections are checked out no waiting handler obtains one. *)
C25_HeldWhilePending ==
  [][phase = "listening" =>
       /\ \A r \in DOMAIN req :
            req[r].pc \in {"showTables", "count", "select", "query"} =>
              req[r].conn \in busy /\ req[r].released = 0
       /\ \A c \in busy \ busy' :
            \E r \in DOMAIN req :
              /\ req[r].conn = c /\ req[r].pc = "release" /\ req[r].res # << >>
              /\ req'[r].pc = "done" /\ req'[r].released = 1
       /\ \A r \in DOMAIN req :
            req[r].pc = "getConnection" /\ busy = Conns => req'[r].conn = 0]_vars

C25_Witness ==
  /\ Cardinality(busy) = connectionLimit
  /\ \E r \in DOMAIN req : req[r].pc = "done" /\ req[r].released = 1
  /\ req[connectionLimit + 1].pc = "query" /\ req[connectionLimit + 1].conn # 0
  /\ \A r \in DOMAIN req : req[r].pc \in {"done", "query"}

(* C23: in every successful table-data response pagination.page is the
   requested page, a number from 1 on (1 when none was requested), and
   pagination.limit is a positive integer, also for limit "all" and an empty
   table. *)
C23_PageAndLimitPositive ==
  \A r \in Requests :
    TableDataOk(r) =>
      /\ PaginationOf(r).page = parseInt(Page(req[r]))
      /\ PaginationOf(r).page.kind = "num" /\ PaginationOf(r).page.n >= 1
      /\ PaginationOf(r).limit.kind = "num" /\ PaginationOf(r).limit.n > 0

(* C24: when the row query of a table-data request or the statement of a
   raw query resolves with an empty row list, the handler answers 200 with
   an empty resource array, and the attribute list inferred from the rows
   is empty; the only other outcome is the driver's rejection. *)
C24_EmptyIsNotAnError ==
  [][\A r \in Requests :
       /\ req[r].pc \in {"select", "query"} /\ req'[r].pc # req[r].pc
       /\ Execute(db, Last(req[r].sent)).err = ""
       /\ Execute(db, Last(req[r].sent)).isArray
       /\ Execute(db, Last(req[r].sent)).rows = << >>
       => \/ /\ req'[r].res[1].status = 500
             /\ MessageOf(req'[r].res[1]) = ErrLost
          \/ /\ req'[r].res[1].status = 200
             /\ req'[r].res[1].body.data = << >>
             /\ Attributes(ProcessRows(Execute(db, Last(req[r].sent)).rows)) = << >>
             /\ Len(req'[r].res) = 1]_vars

C24_Witness ==
  /\ \E r \in Requests :
       /\ TableDataOk(r) /\ req[r].pc = "release" /\ ~req[r].written
       /\ Response(r).body.data = << >> /\ db.exists /\ db.rows = << >>
  /\ \E r \in Requests :
       /\ req[r].kind = "query" /\ req[r].query = RawSelect /\ req[r].pc = "done"
       /\ Response(r).status = 200 /\ Response(r).body.data = << >>

(* C27: every data query a table-data request with limit other than "all"
   sends carries the offset (page - 1) * limit and the row cap limit, and
   the offset is never a negative number, whatever page and limit the
   handler accepted. *)
C27_OffsetNeverNegative ==
  \A r \in Requests : \A i \in DOMAIN req[r].sent :
    req[r].kind = "tableData" /\ req[r].sent[i].op = "SELECT" /\ Limit(req[r]) # "all" =>
      /\ req[r].sent[i].clause =
           << JsToString(JsMul(JsSub(parseInt(Page(req[r])), Num(1)), parseInt(Limit(req[r])))),
              Limit(req[r]) >>
      /\ ~(parseInt(req[r].sent[i].clause[1]).kind = "num"
             /\ parseInt(req[r].sent[i].clause[1]).n < 0)

(* C28: when the count query or the data query of a table-data request
   settles while the table, which passed the request's existence check, is
   gone, the handler answers once, with status 500, and goes on to release
   its connection; the release that follows is its only one and makes the
   connection idle. *)
C28_DroppedAfterCheck ==
  [][\A r \in Requests :
       /\ req[r].kind = "tableData" /\ req[r].pc \in {"count", "select"}
            /\ ~TableExists(db, req[r].tableName) /\ req'[r].pc # req[r].pc
          => /\ Len(req'[r].res) = 1 /\ req'[r].res[1].status = 500
             /\ req'[r].pc = "release" /\ req'[r].conn = req[r].conn /\ req[r].conn \in busy'
             /\ req'[r].acquired = 1 /\ req'[r].released = 0
       /\ req[r].kind = "tableData" /\ req[r].pc = "release" /\ req'[r].pc # "release"
          => /\ req'[r].pc = "done" /\ req'[r].released = 1 /\ req'[r].res = req[r].res
             /\ req[r].conn \notin busy']_vars

C28_Witness ==
  \E r \in Requests :
    /\ req[r].kind = "tableData" /\ req[r].pc = "done" /\ req[r].released = 1
    /\ req[r].res = << TableDataCatch(ErrNoTable) >>
    /\ \E i \in DOMAIN req[r].sent : req[r].sent[i].op = "SELECT"
    /\ ~db.exists

(* C26: the document serialized from a row list has one resource per row;
   the attributes of every resource are the keys of the first row, in the
   first row's order, that the resource's row has, each with the row's
   (normalized) value; a key only a later row has is in no resource. *)
C26_AttributesFromFirstRow ==
  Applied("serialize") =>
    LET rows == call.arg[1]
        doc == call.out[1]
    IN /\ Len(doc) = Len(rows)
       /\ \A i \in DOMAIN rows :
            /\ ObjectKeys(doc[i].attributes) =
                 SelectSeq(ObjectKeys(rows[1]), LAMBDA key : HasKey(rows[i], key))
            /\ \A j \in DOMAIN doc[i].attributes :
                 \E k \in DOMAIN rows[i] :
                   /\ rows[i][k].key = doc[i].attributes[j].key
                   /\ doc[i].attributes[j].value = ProcessValue(rows[i][k].value)
            /\ \A k \in DOMAIN rows[i] :
                 ~HasKey(rows[1], rows[i][k].key) => ~HasKey(doc[i].attributes, rows[i][k].key)

C26_Witness ==
  /\ Applied("serialize") /\ Len(call.arg[1]) = 2
  /\ ObjectKeys(call.arg[1][1]) = <<"name", "id">>
  /\ ObjectKeys(call.arg[1][2]) = <<"id", "visits">>
  /\ ObjectKeys(call.out[1][2].attributes) = <<"id">>

(* C29: when every await of a handler settles, every request to
   GET /api/tables, GET /api/tables/:tableName and POST /api/query that is
   being handled gets a response; no request gets a second one, and a
   handler that has returned has sent exactly one. *)
C29_ExactlyOneResponse ==
  \A r \in Requests :
    /\ [](Len(req[r].res) <= 1)
    /\ [](UsesPool(r) /\ req[r].pc = "done" => Len(req[r].res) = 1)
    /\ (UsesPool(r) /\ InFlight(req[r])) ~> (req[r].pc = "done" /\ Len(req[r].res) = 1)

C29_Witness ==
  /\ UsesPool(1) /\ req[1].pc = "done" /\ Len(req[1].res) = 1 /\ req[1].released = 1
  /\ UsesPool(2) /\ InFlight(req[2]) /\ req[2].res = << >> /\ req[2].conn # 0
  /\ req[1].kind # req[2].kind

(* C30: in the variant with the catch-all 404 middleware, a request that
   matches the route GET /api, GET /api/tables or GET /api/tables/:tableName
   is answered by that route's handler and not by the catch-all. *)
C30_CatchAllOnlyUnmatched ==
  (call.fn = "dispatch" /\ call.out # << >>) /\ Last(call.out).ends =>
    \A i \in DOMAIN Stack :
      Stack[i].method # "" /\ Matches(Stack[i], call.arg[1]) =>
        Last(call.out).name # "notFound"

====
